---- MODULE Spec2Model ----
(***************************************************************************)
(* Model of sanitize_html (src/plots/sanitize_html.py): one call of the    *)
(* allowlist sanitizer, from the check of its argument to the join of the  *)
(* output fragments.  The html.parser tokenizer is the environment: it     *)
(* delivers the events, one handler call per step.  other is a second call *)
(* of sanitize_html running beside the first (SpecConc); csv is a run of    *)
(* the batch driver sanitize_csv (SpecCsv); sec is a call of the second     *)
(* sanitizer, cssplt.security.sanitize (SpecSec).                           *)
(*                                                                         *)
(* A string is a sequence of symbols.  A symbol is one punctuation         *)
(* character ("<", "&", " ", ...) or one maximal run of letters and digits *)
(* (a name such as "div", "ok", "lt") kept as a single token.              *)
(***************************************************************************)
EXTENDS Integers, Sequences, FiniteSets, TLC

VARIABLES raw, policy, pc, parser, allowed_tags, allowed_attrs, out,
          drop_content_stack, ev, result, other, csv, sec

vars == <<raw, policy, pc, parser, allowed_tags, allowed_attrs, out,
          drop_content_stack, ev, result, other, csv, sec>>

\* ---- bounds of the model ----
MaxOut == 1
MaxDepth == 2
\* the events given to the second call
MaxHist == 3
\* the rows of the CSV file
MaxRows == 2

\* ---- strings ----
\* str.lower() on a symbol: the names of the model that hold capitals.
Lower(s) ==
  CASE s = "DIV" -> "div"
    [] s = "SPAN" -> "span"
    [] s = "STYLE" -> "style"
    [] s = "CLASS" -> "class"
    [] s = "TITLE" -> "title"
    [] s = "onClick" -> "onclick"
    [] OTHER -> s

\* the runs of letters and digits used as symbols ([a-zA-Z0-9]+)
AlnumSymbols ==
  {"div", "DIV", "span", "SPAN", "br", "script", "style", "STYLE", "iframe",
   "marquee", "class", "CLASS", "title", "TITLE", "onclick", "onClick",
   "ok", "x", "y", "a", "e", "safe", "hi", "evil", "alert",
   "lt", "gt", "amp", "quot", "x27", "60", "x3c", "1", "2", "3", "5"}

Whitespace == {" ", "\t", "\n"}

RECURSIVE Concat(_)
Concat(ss) == IF ss = << >> THEN << >> ELSE Head(ss) \o Concat(Tail(ss))

\* html.escape of one character
EscapeChar(c, quote) ==
  CASE c = "&" -> <<"&", "amp", ";">>
    [] c = "<" -> <<"&", "lt", ";">>
    [] c = ">" -> <<"&", "gt", ";">>
    [] c = "\"" /\ quote -> <<"&", "quot", ";">>
    [] c = "'" /\ quote -> <<"&", "#", "x27", ";">>
    [] OTHER -> <<c>>

\* html.escape(s, quote)
escape(s, quote) == Concat([i \in 1..Len(s) |-> EscapeChar(s[i], quote)])

RECURSIVE LStrip(_)
LStrip(s) == IF s # << >> /\ Head(s) \in Whitespace THEN LStrip(Tail(s)) ELSE s

RECURSIVE RStrip(_)
RStrip(s) ==
  IF s # << >> /\ s[Len(s)] \in Whitespace THEN RStrip(SubSeq(s, 1, Len(s) - 1))
  ELSE s

\* str.strip()
strip(s) == RStrip(LStrip(s))

\* CLASS_RE.match(s): ^[a-zA-Z0-9_\- ]*$
CLASS_RE(s) ==
  \A i \in 1..Len(s) : s[i] \in AlnumSymbols \cup {"_", "-", " "}

\* ---- policy ----
DEFAULT_ALLOWED_TAGS ==
  {"div", "span", "b", "strong", "i", "em", "code", "pre", "ul", "ol", "li", "br"}

DROP_CONTENT_TAGS ==
  {"script", "style", "iframe", "object", "embed", "svg", "math",
   "form", "input", "button", "select", "option", "textarea",
   "meta", "link", "base", "audio", "video", "source", "img"}

DEFAULT_ALLOWED_ATTRS == [k \in {"*"} |-> {"class"}]

\* the arguments (allowed_tags, allowed_attrs) a caller may pass: the defaults,
\* and a policy with upper-case names, a tag-specific entry and a tag (script)
\* that is also in DROP_CONTENT_TAGS
Policies ==
  { [tags |-> DEFAULT_ALLOWED_TAGS, attrs |-> DEFAULT_ALLOWED_ATTRS],
    [tags |-> {"DIV", "span", "br", "script"},
     attrs |-> [k \in {"*", "DIV"} |-> IF k = "*" THEN {"class"} ELSE {"TITLE"}]] }

\* ---- inputs ----
\* raw: None, float('nan'), another float, the empty string, a non-empty string
RawInputs == {"None", "NaN", "Float", "Empty", "Str"}

TagNames == {"DIV", "br", "script", "STYLE", "marquee"}

Attr(k, v) == [k |-> k, has_v |-> TRUE, v |-> v]
AttrNoValue(k) == [k |-> k, has_v |-> FALSE, v |-> << >>]

AttrLists ==
  { << >>,
    <<Attr("class", <<"ok">>), Attr("onClick", <<"evil", "(", ")">>)>>,
    <<Attr("CLASS", <<" ", "ok", "\n">>)>>,
    <<Attr("title", <<"a", "\"", " ", "onclick", "=", "\"", "e">>),
      Attr("class", <<"ok">>)>>,
    <<AttrNoValue("class"), Attr("class", <<" ">>),
      Attr("class", <<"x", ";", "y">>)>> }

Texts ==
  { <<"safe">>,
    <<"5", " ", "<", "script", ">", " ", "&", " ", "1">> }

Comments == {<<"x">>}

EntityNames == {<<"lt">>}
CharRefNames == {<<"x3c">>}

Event(kind, tag, attrs, data) ==
  [kind |-> kind, tag |-> tag, attrs |-> attrs, data |-> data]

NoEvent == [kind |-> "none", tag |-> "", dropping |-> FALSE]

\* a second call that has not begun: its parser's out and drop_content_stack,
\* the events its parser was given so far, and what it returned
NoCall ==
  [pc |-> "idle", out |-> << >>, stack |-> << >>, hist |-> << >>, result |-> << >>]

\* cssplt.security.sanitize before it is called: the parser's _out, the last
\* hook call (kind and tag), and what the call returned
NoSec ==
  [pc |-> "idle", out |-> << >>, ev |-> [kind |-> "none", tag |-> ""],
   result |-> << >>]

\* sanitize_csv before it is called: the column as read, before, after, the
\* column written back, and the report
NoCsv ==
  [pc |-> "idle", column |-> << >>, before |-> << >>, after |-> << >>,
   written |-> << >>, rows_total |-> 0, rows_changed |-> 0]

\* ---- _Sanitizer ----
\* dict.get(k, set())
Get(m, k) == IF k \in DOMAIN m THEN m[k] ELSE {}

\* faulty variant of _attrs_allowed_for: every attribute name is allowed
attrs_allowed_for_any(tag) == AlnumSymbols

\* faulty variant of _attrs_allowed_for: the entries of all tags are merged,
\* the tag is not looked up
attrs_allowed_for_all(tag) ==
  UNION {allowed_attrs[k] : k \in DOMAIN allowed_attrs}

\* _attrs_allowed_for(tag)
attrs_allowed_for(tag) ==
  Get(allowed_attrs, "*") \cup Get(allowed_attrs, Lower(tag))

\* faulty variant of the loop body of _emit_start: the value of an attribute
\* other than class is written with its quotes unescaped
SafeAttr_noquote(a, attrs_allowed) ==
  LET k == Lower(a.k)
      v2 == strip(a.v)
  IN IF ~a.has_v THEN << >>
     ELSE IF k \notin attrs_allowed THEN << >>
     ELSE IF k = "class"
       THEN IF v2 = << >> THEN << >>
            ELSE IF ~CLASS_RE(v2) THEN << >>
            ELSE <<" ", "class", "=", "\"">> \o escape(v2, TRUE) \o <<"\"">>
       ELSE <<" ", k, "=", "\"">> \o escape(a.v, FALSE) \o <<"\"">>

\* the text one attribute adds to the opening tag (empty when it is skipped)
SafeAttr(a, attrs_allowed) ==
  LET k == Lower(a.k)
      v2 == strip(a.v)
  IN IF ~a.has_v THEN << >>
     ELSE IF k \notin attrs_allowed THEN << >>
     ELSE IF k = "class"
       THEN IF v2 = << >> THEN << >>
            ELSE IF ~CLASS_RE(v2) THEN << >>
            ELSE <<" ", "class", "=", "\"">> \o escape(v2, TRUE) \o <<"\"">>
       ELSE <<" ", k, "=", "\"">> \o escape(a.v, TRUE) \o <<"\"">>

\* _emit_start(tag, attrs): the fragment appended to out
emit_start(tag, attrs) ==
  LET attrs_allowed == attrs_allowed_for(tag)
      safe_attrs == [i \in 1..Len(attrs) |-> SafeAttr(attrs[i], attrs_allowed)]
  IN <<"<", Lower(tag)>> \o Concat(safe_attrs) \o <<">">>

\* _emit_end(tag): the fragments appended to out
emit_end(tag) ==
  IF Lower(tag) \in allowed_tags THEN << <<"<", "/", Lower(tag), ">">> >> ELSE << >>

\* ---- parser hooks, as functions of (self.out, self.drop_content_stack) ----
St(o, s) == [out |-> o, stack |-> s]

\* faulty variant of handle_starttag: the allowed_tags test is missing
on_starttag_any(o, s, tag, attrs) ==
  LET tag_l == Lower(tag) IN
  IF s # << >>
  THEN IF tag_l \in DROP_CONTENT_TAGS THEN St(o, Append(s, tag_l)) ELSE St(o, s)
  ELSE IF tag_l \in DROP_CONTENT_TAGS THEN St(o, Append(s, tag_l))
  ELSE St(Append(o, emit_start(tag_l, attrs)), s)

\* faulty variant of handle_starttag: inside a drop region nothing is pushed
on_starttag_flat(o, s, tag, attrs) ==
  LET tag_l == Lower(tag) IN
  IF s # << >> THEN St(o, s)
  ELSE IF tag_l \in DROP_CONTENT_TAGS THEN St(o, Append(s, tag_l))
  ELSE IF tag_l \in allowed_tags THEN St(Append(o, emit_start(tag_l, attrs)), s)
  ELSE St(o, s)

\* faulty variant of handle_starttag: inside a drop region every tag is pushed
on_starttag_pushall(o, s, tag, attrs) ==
  LET tag_l == Lower(tag) IN
  IF s # << >> THEN St(o, Append(s, tag_l))
  ELSE IF tag_l \in DROP_CONTENT_TAGS THEN St(o, Append(s, tag_l))
  ELSE IF tag_l \in allowed_tags THEN St(Append(o, emit_start(tag_l, attrs)), s)
  ELSE St(o, s)

\* handle_starttag(tag, attrs)
on_starttag(o, s, tag, attrs) ==
  LET tag_l == Lower(tag) IN
  IF s # << >>
  THEN IF tag_l \in DROP_CONTENT_TAGS THEN St(o, Append(s, tag_l)) ELSE St(o, s)
  ELSE IF tag_l \in DROP_CONTENT_TAGS THEN St(o, Append(s, tag_l))
  ELSE IF tag_l \in allowed_tags THEN St(Append(o, emit_start(tag_l, attrs)), s)
  ELSE St(o, s)

\* faulty variant of handle_endtag: the tag is compared with the stack top as
\* written, not in lower case
on_endtag_nolower(o, s, tag) ==
  LET tag_l == Lower(tag) IN
  IF s # << >>
  THEN IF tag = s[Len(s)] THEN St(o, SubSeq(s, 1, Len(s) - 1)) ELSE St(o, s)
  ELSE IF tag_l \in allowed_tags THEN St(o \o emit_end(tag_l), s)
  ELSE St(o, s)

\* faulty variant of handle_endtag: a closing tag is written for every name
on_endtag_any(o, s, tag) ==
  LET tag_l == Lower(tag) IN
  IF s # << >>
  THEN IF tag_l = s[Len(s)] THEN St(o, SubSeq(s, 1, Len(s) - 1)) ELSE St(o, s)
  ELSE St(Append(o, <<"<", "/", tag_l, ">">>), s)

\* faulty variant of handle_endtag: the stack is cut back to the last entry
\* that equals the tag, wherever it lies
on_endtag_deep(o, s, tag) ==
  LET tag_l == Lower(tag)
      hits == {i \in DOMAIN s : s[i] = tag_l}
  IN IF s # << >>
     THEN IF hits # {}
          THEN St(o, SubSeq(s, 1, (CHOOSE i \in hits : \A j \in hits : j <= i) - 1))
          ELSE St(o, s)
     ELSE IF tag_l \in allowed_tags THEN St(o \o emit_end(tag_l), s)
     ELSE St(o, s)

\* handle_endtag(tag)
on_endtag(o, s, tag) ==
  LET tag_l == Lower(tag) IN
  IF s # << >>
  THEN IF tag_l = s[Len(s)] THEN St(o, SubSeq(s, 1, Len(s) - 1)) ELSE St(o, s)
  ELSE IF tag_l \in allowed_tags THEN St(o \o emit_end(tag_l), s)
  ELSE St(o, s)

\* faulty variant of handle_startendtag: a self-closed drop-content tag is
\* handled as its StartTag
on_startendtag_opens(o, s, tag, attrs) ==
  LET tag_l == Lower(tag) IN
  IF tag_l \in DROP_CONTENT_TAGS THEN St(o, Append(s, tag_l))
  ELSE IF s # << >> THEN St(o, s)
  ELSE IF tag_l \in allowed_tags
       THEN IF tag_l = "br" THEN St(Append(o, <<"<", "br", ">">>), s)
            ELSE St(Append(o, emit_start(tag_l, attrs)) \o emit_end(tag_l), s)
       ELSE St(o, s)

\* handle_startendtag(tag, attrs)
on_startendtag(o, s, tag, attrs) ==
  LET tag_l == Lower(tag) IN
  IF s # << >> THEN St(o, s)
  ELSE IF tag_l \in DROP_CONTENT_TAGS THEN St(o, s)
  ELSE IF tag_l \in allowed_tags
       THEN IF tag_l = "br" THEN St(Append(o, <<"<", "br", ">">>), s)
            ELSE St(Append(o, emit_start(tag_l, attrs)) \o emit_end(tag_l), s)
       ELSE St(o, s)

\* faulty variant of handle_data: the drop stack is not consulted
on_data_always(o, s, data) == St(Append(o, escape(data, FALSE)), s)

\* faulty variant of handle_data: the text is appended as it came
on_data_raw(o, s, data) ==
  IF s # << >> THEN St(o, s) ELSE St(Append(o, data), s)

\* faulty variant of handle_data: the text is put in front of the output
on_data_front(o, s, data) ==
  IF s # << >> THEN St(o, s) ELSE St(<<escape(data, FALSE)>> \o o, s)

\* handle_data(data)
on_data(o, s, data) ==
  IF s # << >> THEN St(o, s) ELSE St(Append(o, escape(data, FALSE)), s)

\* handle_entityref(name)
on_entityref(o, s, name) ==
  IF s # << >> THEN St(o, s)
  ELSE St(Append(o, <<"&">> \o escape(name, TRUE) \o <<";">>), s)

\* faulty variant of handle_charref: the reference is replaced by the
\* character "<" it stands for, written as it is
on_charref_decoded(o, s, name) ==
  IF s # << >> THEN St(o, s) ELSE St(Append(o, <<"<">>), s)

\* handle_charref(name)
on_charref(o, s, name) ==
  IF s # << >> THEN St(o, s)
  ELSE St(Append(o, <<"&", "#">> \o escape(name, TRUE) \o <<";">>), s)

\* faulty variant of handle_comment: the comment is passed through as text
on_comment_emit(o, s, data) ==
  IF s # << >> THEN St(o, s) ELSE St(Append(o, escape(data, FALSE)), s)

\* handle_comment(data)
on_comment(o, s, data) == St(o, s)

\* the hook HTMLParser calls for event e
Handle(o, s, e) ==
  CASE e.kind = "start" -> on_starttag(o, s, e.tag, e.attrs)
    [] e.kind = "end" -> on_endtag(o, s, e.tag)
    [] e.kind = "startend" -> on_startendtag(o, s, e.tag, e.attrs)
    [] e.kind = "data" -> on_data(o, s, e.data)
    [] e.kind = "entityref" -> on_entityref(o, s, e.data)
    [] e.kind = "charref" -> on_charref(o, s, e.data)
    [] e.kind = "comment" -> on_comment(o, s, e.data)

\* p.feed over a whole event sequence, from (o, s)
RECURSIVE Feed(_, _, _)
Feed(o, s, es) ==
  IF es = << >> THEN St(o, s)
  ELSE LET st == Handle(o, s, Head(es)) IN Feed(st.out, st.stack, Tail(es))

\* one hook call on the parser object; ev keeps the event's kind and tag and
\* whether the hook found the drop stack non-empty
Step(e) ==
  LET st == Handle(out, drop_content_stack, e) IN
  /\ pc = "feed"
  /\ st.out = out \/ Len(out) < MaxOut
  /\ Len(st.stack) <= MaxDepth
  /\ ev' = [kind |-> e.kind, tag |-> e.tag, dropping |-> drop_content_stack # << >>]
  /\ out' = st.out
  /\ drop_content_stack' = st.stack
  /\ UNCHANGED <<raw, policy, pc, parser, allowed_tags, allowed_attrs, result,
                 other, csv, sec>>

\* faulty variant of pd.isna: NaN is not recognised
isna_never(r) == FALSE

\* isinstance(raw, float)
isinstance_float(r) == r \in {"NaN", "Float"}

\* pd.isna(raw)
isna(r) == r = "NaN"

\* sanitize_html up to p.feed: the early return, or _Sanitizer.__init__.
\* The dict comprehension of __init__ keeps one entry per lower-case key; the
\* keys of each policy in Policies are distinct in lower case.
Call ==
  /\ pc = "call"
  /\ IF raw = "None" \/ (isinstance_float(raw) /\ isna(raw))
     THEN /\ pc' = "done"
          /\ result' = << >>
          /\ UNCHANGED <<parser, allowed_tags, allowed_attrs>>
     ELSE /\ pc' = "feed"
          /\ parser' = TRUE
          /\ allowed_tags' = {Lower(t) : t \in policy.tags}
          /\ allowed_attrs' =
               [k \in {Lower(j) : j \in DOMAIN policy.attrs} |->
                  LET j == CHOOSE j \in DOMAIN policy.attrs : Lower(j) = k
                  IN {Lower(a) : a \in policy.attrs[j]}]
          /\ UNCHANGED result
  /\ UNCHANGED <<raw, policy, out, drop_content_stack, ev, other, csv, sec>>

\* the hook calls p.feed and p.close make: tags only in a non-empty string,
\* text also in str(raw) of a float, nothing in the empty string
handle_starttag ==
  \E tag \in TagNames, attrs \in AttrLists :
    raw = "Str" /\ Step(Event("start", tag, attrs, << >>))

handle_endtag ==
  \E tag \in TagNames :
    raw = "Str" /\ Step(Event("end", tag, << >>, << >>))

handle_startendtag ==
  \E tag \in TagNames, attrs \in AttrLists :
    raw = "Str" /\ Step(Event("startend", tag, attrs, << >>))

handle_data ==
  \E data \in Texts :
    raw \in {"Str", "Float"} /\ Step(Event("data", "", << >>, data))

handle_entityref ==
  \E name \in EntityNames :
    raw = "Str" /\ Step(Event("entityref", "", << >>, name))

handle_charref ==
  \E name \in CharRefNames :
    raw = "Str" /\ Step(Event("charref", "", << >>, name))

handle_comment ==
  \E data \in Comments :
    raw = "Str" /\ Step(Event("comment", "", << >>, data))

\* p.feed meets "<![" that no section keyword follows (as in "<![x]>"):
\* HTMLParser raises AssertionError; neither p.feed nor sanitize_html has a
\* handler, so the call ends with the exception
feed_raises ==
  /\ pc = "feed"
  /\ raw = "Str"
  /\ pc' = "raised"
  /\ UNCHANGED <<raw, policy, parser, allowed_tags, allowed_attrs, out,
                 drop_content_stack, ev, result, other, csv, sec>>

\* faulty variant of the end of sanitize_html: the regions still open are
\* closed in the output
Return_closing ==
  /\ pc = "feed"
  /\ pc' = "done"
  /\ result' = Concat(out \o [i \in DOMAIN drop_content_stack |->
                                <<"<", "/", drop_content_stack[i], ">">>])
  /\ UNCHANGED <<raw, policy, parser, allowed_tags, allowed_attrs, out,
                 drop_content_stack, ev, other, csv, sec>>

\* p.close() and return "".join(p.out)
Return ==
  /\ pc = "feed"
  /\ pc' = "done"
  /\ result' = Concat(out)
  /\ UNCHANGED <<raw, policy, parser, allowed_tags, allowed_attrs, out,
                 drop_content_stack, ev, other, csv, sec>>

Init ==
  /\ raw \in RawInputs
  /\ policy \in Policies
  /\ pc = "call"
  /\ parser = FALSE
  /\ allowed_tags = {}
  /\ allowed_attrs = << >>
  /\ out = << >>
  /\ drop_content_stack = << >>
  /\ ev = NoEvent
  /\ result = << >>
  /\ other = NoCall
  /\ csv = NoCsv
  /\ sec = NoSec

Next ==
  \/ Call
  \/ handle_starttag
  \/ handle_endtag
  \/ handle_startendtag
  \/ handle_data
  \/ handle_entityref
  \/ handle_charref
  \/ handle_comment
  \/ feed_raises
  \/ Return

Spec == Init /\ [][Next]_vars

\* ---- two calls of sanitize_html side by side ----
\* the hook calls made for pieces of "<script>safe</script>safe"
ConcEvents ==
  { Event("start", "script", << >>, << >>),
    Event("end", "script", << >>, << >>),
    Event("data", "", << >>, <<"safe">>) }

\* the second call is made with the same policy arguments; its __init__
\* computes the same allowed_tags and allowed_attrs as the first call's, so
\* the model starts it once these are computed and reads them from there
Call2 ==
  /\ other.pc = "idle"
  /\ parser
  /\ other' = [other EXCEPT !.pc = "feed"]
  /\ UNCHANGED <<raw, policy, pc, parser, allowed_tags, allowed_attrs, out,
                 drop_content_stack, ev, result, csv, sec>>

\* faulty variant of a hook call of the second parser: out is one list shared
\* by all parsers (a class attribute), not one per instance
Step2_shared(e) ==
  LET st == Handle(out, other.stack, e) IN
  /\ other.pc = "feed"
  /\ Len(other.hist) < MaxHist
  /\ out' = st.out
  /\ other' = [other EXCEPT !.out = st.out, !.stack = st.stack,
                             !.hist = Append(@, e)]
  /\ UNCHANGED <<raw, policy, pc, parser, allowed_tags, allowed_attrs,
                 drop_content_stack, ev, result, csv, sec>>

\* one hook call on the second call's parser: it works on that parser's own
\* out and drop_content_stack (set per instance in __init__)
Step2(e) ==
  LET st == Handle(other.out, other.stack, e) IN
  /\ other.pc = "feed"
  /\ Len(other.hist) < MaxHist
  /\ other' = [other EXCEPT !.out = st.out, !.stack = st.stack,
                             !.hist = Append(@, e)]
  /\ UNCHANGED <<raw, policy, pc, parser, allowed_tags, allowed_attrs, out,
                 drop_content_stack, ev, result, csv, sec>>

feed1 == \E e \in ConcEvents : raw = "Str" /\ Step(e)

feed2 == \E e \in ConcEvents : Step2(e)

Return2 ==
  /\ other.pc = "feed"
  /\ other' = [other EXCEPT !.pc = "done", !.result = Concat(other.out)]
  /\ UNCHANGED <<raw, policy, pc, parser, allowed_tags, allowed_attrs, out,
                 drop_content_stack, ev, result, csv, sec>>

InitConc == Init /\ raw = "Str"

NextConc ==
  \/ Call
  \/ feed1
  \/ Return
  \/ Call2
  \/ feed2
  \/ Return2

SpecConc == InitConc /\ [][NextConc]_vars

\* ---- HTMLParser.feed on a string ----
\* the character a reference stands for (html.unescape)
RefChar(name) ==
  CASE name = "amp" -> "&"
    [] name = "lt" -> "<"
    [] name = "gt" -> ">"
    [] name = "quot" -> "\""

CharRefChar(name) ==
  CASE name = "x27" -> "'"
    [] name = "x3c" -> "<"
    [] name = "60" -> "<"

\* an attribute value as the parser hands it to the hook: references replaced
RECURSIVE Unescape(_)
Unescape(v) ==
  IF v = << >> THEN << >>
  ELSE IF Len(v) >= 3 /\ v[1] = "&" /\ v[2] \in {"amp", "lt", "gt", "quot"} /\ v[3] = ";"
    THEN <<RefChar(v[2])>> \o Unescape(SubSeq(v, 4, Len(v)))
  ELSE IF Len(v) >= 4 /\ v[1] = "&" /\ v[2] = "#" /\ v[3] \in {"x27", "x3c", "60"}
            /\ v[4] = ";"
    THEN <<CharRefChar(v[3])>> \o Unescape(SubSeq(v, 5, Len(v)))
  ELSE <<Head(v)>> \o Unescape(Tail(v))

\* the position of the quote that ends the value begun at i
RECURSIVE ValueEnd(_, _)
ValueEnd(s, i) == IF i > Len(s) \/ s[i] = "\"" THEN i ELSE ValueEnd(s, i + 1)

\* the attributes name="value" from position i, and the position after them
RECURSIVE TokAttrs(_, _)
TokAttrs(s, i) ==
  IF i + 3 <= Len(s) /\ s[i] = " " /\ s[i + 1] \in AlnumSymbols
       /\ s[i + 2] = "=" /\ s[i + 3] = "\"" /\ ValueEnd(s, i + 4) <= Len(s)
  THEN LET j == ValueEnd(s, i + 4)
           r == TokAttrs(s, j + 1)
       IN [attrs |-> <<Attr(s[i + 1], Unescape(SubSeq(s, i + 4, j - 1)))>> \o r.attrs,
           next |-> r.next]
  ELSE [attrs |-> << >>, next |-> i]

\* the end of the run of text begun before i: the next "<" or "&"
RECURSIVE DataEnd(_, _)
DataEnd(s, i) ==
  IF i > Len(s) \/ s[i] \in {"<", "&"} THEN i ELSE DataEnd(s, i + 1)

\* the hook calls for s from position i: closing tag, opening tag, character
\* reference, entity reference, else text up to the next "<" or "&"
RECURSIVE TokFrom(_, _)
TokFrom(s, i) ==
  IF i > Len(s) THEN << >>
  ELSE IF s[i] = "<" /\ i + 3 <= Len(s) /\ s[i + 1] = "/"
            /\ s[i + 2] \in AlnumSymbols /\ s[i + 3] = ">"
    THEN <<Event("end", s[i + 2], << >>, << >>)>> \o TokFrom(s, i + 4)
  ELSE IF s[i] = "<" /\ i + 2 <= Len(s) /\ s[i + 1] \in AlnumSymbols
            /\ TokAttrs(s, i + 2).next <= Len(s) /\ s[TokAttrs(s, i + 2).next] = ">"
    THEN LET r == TokAttrs(s, i + 2)
         IN <<Event("start", s[i + 1], r.attrs, << >>)>> \o TokFrom(s, r.next + 1)
  ELSE IF s[i] = "&" /\ i + 3 <= Len(s) /\ s[i + 1] = "#"
            /\ s[i + 2] \in AlnumSymbols /\ s[i + 3] = ";"
    THEN <<Event("charref", "", << >>, <<s[i + 2]>>)>> \o TokFrom(s, i + 4)
  ELSE IF s[i] = "&" /\ i + 2 <= Len(s) /\ s[i + 1] \in AlnumSymbols /\ s[i + 2] = ";"
    THEN <<Event("entityref", "", << >>, <<s[i + 1]>>)>> \o TokFrom(s, i + 3)
  ELSE LET j == DataEnd(s, i + 1)
       IN <<Event("data", "", << >>, SubSeq(s, i, j - 1))>> \o TokFrom(s, j)

Tokenize(s) == TokFrom(s, 1)

\* sanitize_html of a string that the parser reads without raising, with the
\* normalised policy in allowed_tags and allowed_attrs: the join of what the
\* hooks write for its events
sanitize_str(s) == Concat(Feed(<< >>, << >>, Tokenize(s)).out)

\* p.feed(s) raises: s holds "<![" (see feed_raises)
feed_would_raise(s) ==
  \E i \in 1..(Len(s) - 2) : s[i] = "<" /\ s[i + 1] = "!" /\ s[i + 2] = "["

\* ---- sanitize_csv ----
\* a cell of the column as pd.read_csv yields it: NaN for an empty field,
\* else the field's text
MissingCell == [na |-> TRUE, s |-> << >>]
Cell(s) == [na |-> FALSE, s |-> s]

CsvCells ==
  { MissingCell,
    Cell(<<"safe">>),
    Cell(<<"<", "DIV", " ", "class", "=", "\"", "ok", "\"", ">", "hi", "<", "/", "DIV", ">">>),
    Cell(<<"5", " ", "<", " ", "3">>),
    Cell(<<"<", "marquee", ">", "x">>),
    Cell(<<"<", "!", "[", "x">>) }

Columns == UNION {[1..n -> CsvCells] : n \in 0..MaxRows}

\* faulty variant of fillna(""): the rows with a missing value are left out
RECURSIVE dropna(_)
dropna(col) ==
  IF col = << >> THEN << >>
  ELSE (IF Head(col).na THEN << >> ELSE <<Head(col).s>>) \o dropna(Tail(col))

\* Series.fillna("").astype(str)
fillna(col) == [i \in DOMAIN col |-> IF col[i].na THEN << >> ELSE col[i].s]

\* df = pd.read_csv(in_path), and the test for the column
read_csv ==
  /\ csv.pc = "idle"
  /\ \E has_col \in BOOLEAN, col \in Columns :
       csv' = [csv EXCEPT !.pc = IF has_col THEN "loaded" ELSE "exit",
                          !.column = IF has_col THEN col ELSE << >>]
  /\ UNCHANGED <<raw, policy, pc, parser, allowed_tags, allowed_attrs, out,
                 drop_content_stack, ev, result, other, sec>>

\* before = df[html_col].fillna("").astype(str)
fillna_astype ==
  /\ csv.pc = "loaded"
  /\ csv' = [csv EXCEPT !.pc = "map", !.before = fillna(csv.column)]
  /\ UNCHANGED <<raw, policy, pc, parser, allowed_tags, allowed_attrs, out,
                 drop_content_stack, ev, result, other, sec>>

\* after = before.map(sanitize_html), one row per step; a row on which
\* sanitize_html raises ends sanitize_csv with that exception
map_row ==
  /\ csv.pc = "map"
  /\ Len(csv.after) < Len(csv.before)
  /\ LET s == csv.before[Len(csv.after) + 1] IN
     IF feed_would_raise(s)
     THEN csv' = [csv EXCEPT !.pc = "raised"]
     ELSE csv' = [csv EXCEPT !.after = Append(@, sanitize_str(s))]
  /\ UNCHANGED <<raw, policy, pc, parser, allowed_tags, allowed_attrs, out,
                 drop_content_stack, ev, result, other, sec>>

\* rows_changed, df[html_col] = after, df.to_csv, and the report
write_csv ==
  /\ csv.pc = "map"
  /\ Len(csv.after) = Len(csv.before)
  /\ csv' = [csv EXCEPT
       !.pc = "done",
       !.written = csv.after,
       !.rows_total = Len(csv.column),
       !.rows_changed =
          Cardinality({i \in DOMAIN csv.before : csv.before[i] # csv.after[i]})]
  /\ UNCHANGED <<raw, policy, pc, parser, allowed_tags, allowed_attrs, out,
                 drop_content_stack, ev, result, other, sec>>

\* sanitize_csv calls sanitize_html with its default arguments: every parser
\* made by the map holds the default policy in lower case
InitCsv ==
  /\ raw = "Str"
  /\ policy = [tags |-> DEFAULT_ALLOWED_TAGS, attrs |-> DEFAULT_ALLOWED_ATTRS]
  /\ pc = "call"
  /\ parser = FALSE
  /\ allowed_tags = {Lower(t) : t \in DEFAULT_ALLOWED_TAGS}
  /\ allowed_attrs = DEFAULT_ALLOWED_ATTRS
  /\ out = << >>
  /\ drop_content_stack = << >>
  /\ ev = NoEvent
  /\ result = << >>
  /\ other = NoCall
  /\ csv = NoCsv
  /\ sec = NoSec

NextCsv ==
  \/ read_csv
  \/ fillna_astype
  \/ map_row
  \/ write_csv

SpecCsv == InitCsv /\ [][NextCsv]_vars

\* ---- cssplt.security.sanitize, the second sanitizer ----
SEC_ALLOWED_TAGS == {"b", "i", "em", "strong", "br", "span"}

SEC_ALLOWED_ATTRS == {"class"}

\* SAFE_CLASS.match(v): ^[a-zA-Z0-9_\-\s]+$
SAFE_CLASS(v) ==
  /\ v # << >>
  /\ \A i \in 1..Len(v) : v[i] \in AlnumSymbols \cup {"_", "-"} \cup Whitespace

SecTagNames == {"b", "SPAN", "br", "script"}

\* the text one attribute adds to the opening tag (empty when it is skipped)
sec_attr(a) ==
  LET k == Lower(a.k)
  IN IF k \notin SEC_ALLOWED_ATTRS \/ ~a.has_v THEN << >>
     ELSE IF k = "class" /\ ~SAFE_CLASS(a.v) THEN << >>
     ELSE <<" ", k, "=", "\"">> \o escape(a.v, TRUE) \o <<"\"">>

\* _SanitizerParser.handle_starttag(tag, attrs), as a function of self._out
sec_starttag(o, tag, attrs) ==
  LET tag_l == Lower(tag) IN
  IF tag_l \notin SEC_ALLOWED_TAGS THEN o
  ELSE IF tag_l = "br" THEN Append(o, <<"<", "br", ">">>)
  ELSE Append(o, <<"<", tag_l>>
                   \o Concat([i \in 1..Len(attrs) |-> sec_attr(attrs[i])])
                   \o <<">">>)

\* _SanitizerParser.handle_endtag(tag)
sec_endtag(o, tag) ==
  LET tag_l == Lower(tag) IN
  IF tag_l \in SEC_ALLOWED_TAGS /\ tag_l # "br"
  THEN Append(o, <<"<", "/", tag_l, ">">>)
  ELSE o

\* handle_startendtag is not overridden: HTMLParser calls handle_starttag and
\* then handle_endtag
sec_startendtag(o, tag, attrs) == sec_endtag(sec_starttag(o, tag, attrs), tag)

\* _SanitizerParser.handle_data(data): html.escape(data), quotes included
sec_data(o, data) == Append(o, escape(data, TRUE))

SecHandle(o, e) ==
  CASE e.kind = "start" -> sec_starttag(o, e.tag, e.attrs)
    [] e.kind = "end" -> sec_endtag(o, e.tag)
    [] e.kind = "startend" -> sec_startendtag(o, e.tag, e.attrs)
    [] e.kind = "data" -> sec_data(o, e.data)

\* sanitize(html_input) up to parser.feed: "" for an empty or blank input
sec_call ==
  /\ sec.pc = "idle"
  /\ \E blank \in BOOLEAN :
       sec' = [sec EXCEPT !.pc = IF blank THEN "done" ELSE "feed"]
  /\ UNCHANGED <<raw, policy, pc, parser, allowed_tags, allowed_attrs, out,
                 drop_content_stack, ev, result, other, csv>>

\* one hook call on the second sanitizer's parser
SecStep(e) ==
  LET o2 == SecHandle(sec.out, e) IN
  /\ sec.pc = "feed"
  /\ o2 = sec.out \/ Len(sec.out) < MaxOut
  /\ sec' = [sec EXCEPT !.out = o2, !.ev = [kind |-> e.kind, tag |-> e.tag]]
  /\ UNCHANGED <<raw, policy, pc, parser, allowed_tags, allowed_attrs, out,
                 drop_content_stack, ev, result, other, csv>>

sec_handle_starttag ==
  \E tag \in SecTagNames, attrs \in AttrLists :
    SecStep(Event("start", tag, attrs, << >>))

sec_handle_endtag ==
  \E tag \in SecTagNames : SecStep(Event("end", tag, << >>, << >>))

sec_handle_startendtag ==
  \E tag \in SecTagNames, attrs \in AttrLists :
    SecStep(Event("startend", tag, attrs, << >>))

sec_handle_data ==
  \E data \in Texts : SecStep(Event("data", "", << >>, data))

\* the inputs of the model on which parser.feed raises (they hold "<![" and
\* no section keyword)
SecRaisingInputs ==
  { <<"<", "!", "[", "x", "]", ">">>,
    <<"<", "b", " ", "onclick", "=", "\"", "e", "\"", ">", "<", "!", "[", "x", "]", ">">> }

\* except Exception: return html.escape(html_input)
sec_except ==
  /\ sec.pc = "feed"
  /\ \E s \in SecRaisingInputs :
       sec' = [sec EXCEPT !.pc = "done", !.result = escape(s, TRUE)]
  /\ UNCHANGED <<raw, policy, pc, parser, allowed_tags, allowed_attrs, out,
                 drop_content_stack, ev, result, other, csv>>

\* return parser.get_result()
sec_return ==
  /\ sec.pc = "feed"
  /\ sec' = [sec EXCEPT !.pc = "done", !.result = Concat(sec.out)]
  /\ UNCHANGED <<raw, policy, pc, parser, allowed_tags, allowed_attrs, out,
                 drop_content_stack, ev, result, other, csv>>

InitSec ==
  /\ Init
  /\ raw = "Str"
  /\ policy = [tags |-> DEFAULT_ALLOWED_TAGS, attrs |-> DEFAULT_ALLOWED_ATTRS]

NextSec ==
  \/ sec_call
  \/ sec_handle_starttag
  \/ sec_handle_endtag
  \/ sec_handle_startendtag
  \/ sec_handle_data
  \/ sec_except
  \/ sec_return

SpecSec == InitSec /\ [][NextSec]_vars

\* ---- reading the output back ----
\* the names that follow "<" or "</" in a string
OpenTagNamesIn(s) ==
  {s[i + 1] : i \in {i \in 1..(Len(s) - 1) : s[i] = "<" /\ s[i + 1] # "/"}}

CloseTagNamesIn(s) ==
  {s[i + 2] : i \in {i \in 1..(Len(s) - 2) : s[i] = "<" /\ s[i + 1] = "/"}}

TagNamesIn(s) == OpenTagNamesIn(s) \cup CloseTagNamesIn(s)

IsOpenTag(f) == Len(f) >= 3 /\ f[1] = "<" /\ f[2] # "/"

RECURSIVE QuoteEnd(_, _)
QuoteEnd(f, i) == IF i > Len(f) \/ f[i] = "\"" THEN i ELSE QuoteEnd(f, i + 1)

\* the attributes name="value" of an opening tag, read from position i
RECURSIVE ParseAttrsFrom(_, _)
ParseAttrsFrom(f, i) ==
  IF i + 3 <= Len(f) /\ f[i] = " " /\ f[i + 2] = "=" /\ f[i + 3] = "\""
  THEN LET j == QuoteEnd(f, i + 4)
       IN <<[k |-> f[i + 1], v |-> SubSeq(f, i + 4, j - 1)]>> \o ParseAttrsFrom(f, j + 1)
  ELSE << >>

ParseAttrs(f) == ParseAttrsFrom(f, 3)

AttrNames(f) == {ParseAttrs(f)[i].k : i \in DOMAIN ParseAttrs(f)}

\* the opening tag is nothing but its name and the attributes read from it
WellFormedOpenTag(f) ==
  LET ps == ParseAttrs(f)
  IN f = <<"<", f[2]>>
         \o Concat([i \in DOMAIN ps |-> <<" ", ps[i].k, "=", "\"">> \o ps[i].v \o <<"\"">>])
         \o <<">">>

\* the policy as the caller passed it, names compared in lower case
PolicyTags == {Lower(t) : t \in policy.tags}

PolicyAttrs(key) ==
  UNION {{Lower(a) : a \in policy.attrs[j]} :
           j \in {j \in DOMAIN policy.attrs : Lower(j) = key}}

EffectiveAttrs(tag) == PolicyAttrs("*") \cup PolicyAttrs(tag)

IsDefaultPolicy ==
  policy = [tags |-> DEFAULT_ALLOWED_TAGS, attrs |-> DEFAULT_ALLOWED_ATTRS]

Dropping == drop_content_stack # << >>

\* a step of the parser: one hook call, described by ev'
HookStep == pc = "feed" /\ pc' = "feed"

\* ---- claims ----
\* C1: every tag name in the output buffer and in the returned string, in an
\* opening or in a closing tag, is one of the policy's allowed tags.
C1_AllowlistContainment ==
  /\ TagNamesIn(Concat(out)) \subseteq PolicyTags
  /\ TagNamesIn(result) \subseteq PolicyTags

C1_Witness ==
  /\ pc = "done"
  /\ OpenTagNamesIn(result) # {}
  /\ CloseTagNamesIn(result) # {}

\* C2: every opening tag in the output buffer consists of its name and of
\* attributes only, and each attribute name is in the effective allowed set of
\* that tag: the union of the policy's entry for the tag and its "*" entry.
C2_AttrsInEffectiveSet ==
  \A i \in DOMAIN out :
    IsOpenTag(out[i]) =>
      /\ WellFormedOpenTag(out[i])
      /\ AttrNames(out[i]) \subseteq EffectiveAttrs(out[i][2])

C2_Witness ==
  \E i \in DOMAIN out :
    /\ IsOpenTag(out[i])
    /\ AttrNames(out[i]) = {"title", "class"}
    /\ PolicyAttrs("*") # EffectiveAttrs(out[i][2])

\* the attribute names of the model that begin with "on", in lower case
OnAttrNames == {"onclick"}

\* C3: with the default policy the output holds no opening script, style or
\* iframe tag and no attribute whose name begins with "on", in any letter case.
C3_DefaultPolicySafety ==
  IsDefaultPolicy =>
    /\ \A n \in OpenTagNamesIn(Concat(out)) \cup OpenTagNamesIn(result) :
         Lower(n) \notin {"script", "style", "iframe"}
    /\ \A i \in DOMAIN out :
         IsOpenTag(out[i]) => \A n \in AttrNames(out[i]) : Lower(n) \notin OnAttrNames

C3_Witness ==
  /\ IsDefaultPolicy
  /\ ev.kind = "start" /\ ev.tag = "STYLE"
  /\ \E i \in DOMAIN out : IsOpenTag(out[i]) /\ "class" \in AttrNames(out[i])

\* C4: no step taken while the drop stack is non-empty changes the output
\* buffer, whatever the event.
C4_NoOutputWhileDropping ==
  [][Dropping => out' = out]_vars

C4_Witness ==
  /\ ev.kind = "data" /\ ev.dropping
  /\ Dropping
  /\ out # << >>

\* C5: a Comment event changes neither the output buffer nor the drop stack,
\* in the Normal and in the Dropping state.
C5_CommentIgnored ==
  [][(HookStep /\ ev'.kind = "comment") =>
       (out' = out /\ drop_content_stack' = drop_content_stack)]_vars

C5_Witness ==
  /\ ev.kind = "comment" /\ ~ev.dropping
  /\ out # << >>

\* the events of the model, as the tokenizer hands them to the hooks
Events ==
  {Event("start", t, a, << >>) : t \in TagNames, a \in AttrLists}
    \cup {Event("startend", t, a, << >>) : t \in TagNames, a \in AttrLists}
    \cup {Event("end", t, << >>, << >>) : t \in TagNames}
    \cup {Event("data", "", << >>, d) : d \in Texts}
    \cup {Event("entityref", "", << >>, n) : n \in EntityNames}
    \cup {Event("charref", "", << >>, n) : n \in CharRefNames}
    \cup {Event("comment", "", << >>, d) : d \in Comments}

IsTagEvent(e) == e.kind \in {"start", "end", "startend"}

\* C6: in the Normal state StartTag(d) of a drop-content tag d opens a region
\* without output; at depth one every event that is not a drop-content tag
\* leaves output and stack alone; EndTag(d) closes the region without output
\* and leaves the stack empty; a script element followed by the text "safe"
\* adds exactly "safe" to the output.
C6_DropContentRemoval ==
  [][HookStep =>
      /\ (~Dropping /\ ev'.kind = "start" /\ Lower(ev'.tag) \in DROP_CONTENT_TAGS)
           => (out' = out /\ drop_content_stack' = <<Lower(ev'.tag)>>)
      /\ (Len(drop_content_stack) = 1
            /\ (IsTagEvent(ev') => Lower(ev'.tag) \notin DROP_CONTENT_TAGS))
           => (out' = out /\ drop_content_stack' = drop_content_stack)
      /\ (Len(drop_content_stack) = 1 /\ ev'.kind = "end"
            /\ Lower(ev'.tag) = drop_content_stack[1])
           => (out' = out /\ drop_content_stack' = << >>)
      /\ ~Dropping =>
           Feed(out, << >>,
                <<Event("start", "script", << >>, << >>),
                  Event("data", "", << >>, <<"alert", "(", "1", ")">>),
                  Event("end", "script", << >>, << >>),
                  Event("data", "", << >>, <<"safe">>)>>)
             = St(Append(out, <<"safe">>), << >>)]_vars

C6_Witness ==
  /\ pc = "feed"
  /\ ev.kind = "end" /\ ev.tag = "STYLE" /\ ev.dropping
  /\ ~Dropping

\* C7: in the Normal state a StartTag or EndTag whose name is neither allowed
\* nor drop-content adds nothing to the output and leaves the stack empty, and
\* an event wrapped in such a tag has the effect it has alone; marquee around
\* the text "hi" adds exactly "hi".
C7_UnwrapUnknownTag ==
  (pc = "feed" /\ ~Dropping) =>
    \A t \in {t \in TagNames : Lower(t) \notin allowed_tags \cup DROP_CONTENT_TAGS} :
      /\ \A a \in AttrLists : on_starttag(out, << >>, t, a) = St(out, << >>)
      /\ on_endtag(out, << >>, t) = St(out, << >>)
      /\ \A e \in Events :
           Feed(out, << >>,
                <<Event("start", t, << >>, << >>), e, Event("end", t, << >>, << >>)>>)
             = Handle(out, << >>, e)
      /\ Feed(out, << >>,
              <<Event("start", t, << >>, << >>),
                Event("data", "", << >>, <<"hi">>),
                Event("end", t, << >>, << >>)>>)
           = St(Append(out, <<"hi">>), << >>)

C7_Witness ==
  /\ ev.kind = "end" /\ ev.tag = "marquee" /\ ~ev.dropping
  /\ out = << <<"safe">> >>

\* xs is ys with some elements left out, the order kept
RECURSIVE IsSubseq(_, _)
IsSubseq(xs, ys) ==
  IF xs = << >> THEN TRUE
  ELSE IF ys = << >> THEN FALSE
  ELSE IF Head(xs) = Head(ys) THEN IsSubseq(Tail(xs), Tail(ys))
  ELSE IsSubseq(xs, Tail(ys))

RECURSIVE Filter(_, _)
Filter(xs, keep) ==
  IF xs = << >> THEN << >>
  ELSE (IF Head(xs) \in keep THEN <<Head(xs)>> ELSE << >>) \o Filter(Tail(xs), keep)

\* an input attribute as it reads in the output when it is kept
Rendered(a) ==
  [k |-> Lower(a.k),
   v |-> IF Lower(a.k) = "class" THEN escape(strip(a.v), TRUE) ELSE escape(a.v, TRUE)]

\* the class attributes of the input that the class rule keeps on tag t
KeptClassAttrs(t, attrs) ==
  Filter([i \in DOMAIN attrs |-> Rendered(attrs[i])],
         {Rendered(attrs[i]) : i \in {i \in DOMAIN attrs :
            /\ Lower(attrs[i].k) = "class"
            /\ attrs[i].has_v
            /\ "class" \in EffectiveAttrs(t)
            /\ strip(attrs[i].v) # << >>
            /\ CLASS_RE(strip(attrs[i].v))}})

ClassAttrsOf(f) ==
  Filter(ParseAttrs(f), {ParseAttrs(f)[i] : i \in {i \in DOMAIN ParseAttrs(f) :
                                               ParseAttrs(f)[i].k = "class"}})

\* the events the hook call of this step may have been: those of the kind and
\* tag recorded in ev' whose effect is the step's
StepEvents ==
  {e \in (IF IsTagEvent(ev')
          THEN {Event(ev'.kind, ev'.tag, IF ev'.kind = "end" THEN << >> ELSE a, << >>) :
                  a \in AttrLists}
          ELSE {Event(ev'.kind, "", << >>, d) : d \in Texts \cup EntityNames
                                                  \cup CharRefNames \cup Comments}) :
     /\ Handle(out, drop_content_stack, e) = St(out', drop_content_stack')}

IsOpeningOfAllowed(e) ==
  e.kind \in {"start", "startend"} /\ Lower(e.tag) \in allowed_tags

\* C8, as claimed: in the Normal state an opening event of an allowed tag
\* always writes the opening tag; no attribute outside the effective allowed
\* set is written and the written attributes keep the order of the input.
C8_Claimed ==
  [][(HookStep /\ ~Dropping) =>
       \A e \in StepEvents :
         IsOpeningOfAllowed(e) =>
           /\ Len(out') > Len(out)
           /\ LET f == out'[Len(out) + 1] IN
              /\ IsOpenTag(f) /\ f[2] = Lower(e.tag)
              /\ WellFormedOpenTag(f)
              /\ AttrNames(f) \subseteq EffectiveAttrs(Lower(e.tag))
              /\ IsSubseq(ParseAttrs(f), [i \in DOMAIN e.attrs |-> Rendered(e.attrs[i])])]_vars

\* C9, as claimed: on an allowed tag in the Normal state the opening tag is
\* written, and a class attribute is written exactly when class is in the
\* effective allowed set and its trimmed value is non-empty and matches the
\* class-name pattern.
C9_Claimed ==
  [][(HookStep /\ ~Dropping) =>
       \A e \in StepEvents :
         IsOpeningOfAllowed(e) =>
           /\ Len(out') > Len(out)
           /\ LET f == out'[Len(out) + 1] IN
              /\ IsOpenTag(f) /\ f[2] = Lower(e.tag)
              /\ ClassAttrsOf(f) = KeptClassAttrs(Lower(e.tag), e.attrs)]_vars

IsNullEquivalent(r) == r \in {"None", "NaN"}

\* C10, as claimed: for the empty string, None and NaN the call returns the
\* empty string, and no parser was created and no event processed.
C10_Claimed ==
  (pc = "done" /\ (raw = "Empty" \/ IsNullEquivalent(raw))) =>
    (result = << >> /\ ~parser /\ ev = NoEvent)

\* C10, amended: for the empty string, None and NaN the call returns the empty
\* string and no event is processed; no parser is created for None and NaN,
\* one is created for the empty string.
C10_EmptyAndNullInput ==
  (pc = "done" /\ (raw = "Empty" \/ IsNullEquivalent(raw))) =>
    (result = << >> /\ ev = NoEvent /\ (parser <=> raw = "Empty"))

C10_Witness ==
  /\ pc = "done"
  /\ raw = "Empty" /\ parser
  /\ result = << >>

\* one character of text as it must read in the output
TextEntity(c) ==
  IF c = "&" THEN <<"&", "amp", ";">>
  ELSE IF c = "<" THEN <<"&", "lt", ";">>
  ELSE IF c = ">" THEN <<"&", "gt", ";">>
  ELSE <<c>>

RECURSIVE TextEscaped(_)
TextEscaped(s) ==
  IF s = << >> THEN << >> ELSE TextEntity(Head(s)) \o TextEscaped(Tail(s))

\* C11: in the Normal state a Text event appends its data with "&", "<" and
\* ">" replaced by their entities and changes nothing else, so no "<" or ">"
\* of a text reaches the output; the text "5 < 3 & 2 > 1" is appended as
\* "5 &lt; 3 &amp; 2 &gt; 1".
C11_TextEscaped ==
  [][(HookStep /\ ~Dropping /\ ev'.kind = "data") =>
       /\ StepEvents # {}
       /\ \A e \in StepEvents :
            /\ out' = Append(out, TextEscaped(e.data))
            /\ \A i \in DOMAIN out'[Len(out')] : out'[Len(out')][i] \notin {"<", ">"}
       /\ drop_content_stack' = drop_content_stack
       /\ on_data(out, << >>,
                  <<"5", " ", "<", " ", "3", " ", "&", " ", "2", " ", ">", " ", "1">>)
            = St(Append(out, <<"5", " ", "&", "lt", ";", " ", "3", " ", "&", "amp", ";",
                               " ", "2", " ", "&", "gt", ";", " ", "1">>), << >>)]_vars

C11_Witness ==
  /\ ev.kind = "data" /\ ~ev.dropping
  /\ out = << <<"5", " ", "&", "lt", ";", "script", "&", "gt", ";", " ",
               "&", "amp", ";", " ", "1">> >>

\* the events of the nested script example, up to the n-th
NestedScript(n) ==
  SubSeq(<<Event("start", "script", << >>, << >>),
           Event("start", "script", << >>, << >>),
           Event("data", "", << >>, <<"a">>),
           Event("end", "script", << >>, << >>),
           Event("data", "", << >>, <<"b">>),
           Event("end", "script", << >>, << >>),
           Event("data", "", << >>, <<"c">>)>>, 1, n)

\* C12: drop regions nest by depth.  While Dropping a StartTag of a
\* drop-content tag pushes its name and writes nothing; the stack shrinks only
\* by an EndTag that names its top, one entry at a time; output is written
\* only with the stack empty.  For StartTag(script), StartTag(script),
\* Text("a"), EndTag(script), Text("b"), EndTag(script), Text("c") the region
\* is still open after the first EndTag, "b" is dropped, and exactly "c" is
\* appended.
C12_NestedDropRegions ==
  [][HookStep =>
      /\ (Dropping /\ ev'.kind = "start" /\ Lower(ev'.tag) \in DROP_CONTENT_TAGS)
           => (out' = out
               /\ drop_content_stack' = Append(drop_content_stack, Lower(ev'.tag)))
      /\ Len(drop_content_stack') < Len(drop_content_stack)
           => (ev'.kind = "end"
               /\ Lower(ev'.tag) = drop_content_stack[Len(drop_content_stack)]
               /\ drop_content_stack' =
                    SubSeq(drop_content_stack, 1, Len(drop_content_stack) - 1))
      /\ out' # out => ~Dropping
      /\ ~Dropping =>
           /\ Feed(out, << >>, NestedScript(2)) = St(out, <<"script", "script">>)
           /\ Feed(out, << >>, NestedScript(4)) = St(out, <<"script">>)
           /\ Feed(out, << >>, NestedScript(5)) = St(out, <<"script">>)
           /\ Feed(out, << >>, NestedScript(6)) = St(out, << >>)
           /\ Feed(out, << >>, NestedScript(7)) = St(Append(out, <<"c">>), << >>)]_vars

C12_Witness ==
  /\ ev.kind = "start" /\ ev.tag = "script" /\ ev.dropping
  /\ drop_content_stack = <<"style", "script">>
  /\ out # << >>

\* C13: sanitizing the returned string again, with the same policy, returns
\* it unchanged.
C13_Idempotent ==
  /\ pc = "done" => sanitize_str(result) = result
  /\ pc = "feed" => sanitize_str(Concat(out)) = Concat(out)

C13_Witness ==
  /\ pc = "done"
  /\ \E i \in DOMAIN Tokenize(result) :
       /\ Tokenize(result)[i].kind = "start"
       /\ \E j \in DOMAIN Tokenize(result)[i].attrs :
            "\"" \in {Tokenize(result)[i].attrs[j].v[n] :
                       n \in DOMAIN Tokenize(result)[i].attrs[j].v}

\* C14, as claimed: in the Normal and in the Dropping state every event has a
\* defined transition to an output buffer that extends the old one and a
\* stack of drop-content tags; the call is never in an error state; it ends
\* by returning the join of the output buffer.
C14_Claimed ==
  /\ pc \in {"call", "feed", "done"}
  /\ pc = "feed" =>
       \A e \in Events :
         LET st == Handle(out, drop_content_stack, e) IN
         /\ SubSeq(st.out, 1, Len(out)) = out
         /\ st.stack \in Seq(DROP_CONTENT_TAGS)
  /\ (pc = "done" /\ parser) => result = Concat(out)

\* some tag of the policy is both allowed and drop-content
Contradictory == PolicyTags \cap DROP_CONTENT_TAGS # {}

\* C15, as claimed: a policy with a tag in both allowed_tags and
\* drop_content_tags is rejected when it is constructed: no parser is built
\* from it and no event of a call is processed under it.
C15_Claimed ==
  [][Contradictory => (~parser' /\ ~HookStep)]_vars

\* the variables of the first call
Call1Vars == <<raw, pc, parser, out, drop_content_stack, ev, result>>

\* C17: two calls that run interleaved do not interfere.  A step of one call
\* leaves the other call's stack, buffer and result as they were; the policy
\* is never changed, nor its normalised copy once a parser holds it; a hook
\* step of the first call has the effect the hook has on that call's own
\* state; the second call's buffer and stack are at every point, and its
\* returned string at the end, what its own events give when run alone.
C17_NoInterference ==
  [][/\ policy' = policy
     /\ parser => (allowed_tags' = allowed_tags /\ allowed_attrs' = allowed_attrs)
     /\ other' # other => Call1Vars' = Call1Vars
     /\ Call1Vars' # Call1Vars => other' = other
     /\ (HookStep /\ other' = other) => StepEvents # {}
     /\ other'.pc = "feed" =>
          St(other'.out, other'.stack) = Feed(<< >>, << >>, other'.hist)
     /\ other'.pc = "done" =>
          other'.result = Concat(Feed(<< >>, << >>, other'.hist).out)]_vars

C17_Witness ==
  /\ pc = "feed" /\ Dropping /\ out # << >>
  /\ other.pc = "feed" /\ other.stack = << >> /\ other.out # << >>
  /\ Len(other.hist) = MaxHist

\* row i of the input as sanitize_html returns it, a missing value read as ""
SanitizedCell(c) == IF c.na THEN sanitize_str(<< >>) ELSE sanitize_str(c.s)

\* C18: sanitize_csv maps the rows one to one and in order.  While the map
\* runs, the rows done so far are sanitize_html of the same rows of the input;
\* when it has written the file, the written column has as many rows as the
\* column read, row i is sanitize_html of row i of the input (a missing value
\* taken as the empty string), and rows_total is that number of rows.
C18_RowsOneToOne ==
  /\ csv.pc = "map" =>
       /\ Len(csv.before) = Len(csv.column)
       /\ Len(csv.after) <= Len(csv.column)
       /\ \A i \in DOMAIN csv.after : csv.after[i] = SanitizedCell(csv.column[i])
  /\ csv.pc = "done" =>
       /\ Len(csv.written) = Len(csv.column)
       /\ \A i \in DOMAIN csv.column : csv.written[i] = SanitizedCell(csv.column[i])
       /\ csv.rows_total = Len(csv.column)

C18_Witness ==
  /\ csv.pc = "done"
  /\ Len(csv.column) = MaxRows
  /\ csv.column[1].na
  /\ csv.written[1] = << >>
  /\ ~csv.column[2].na /\ csv.written[2] # csv.column[2].s
  /\ csv.rows_changed = 1

\* the character an EntityRef or CharRef event denotes, as a text
DecodedRef(e) ==
  IF e.kind = "entityref" THEN <<RefChar(e.data[1])>> ELSE <<CharRefChar(e.data[1])>>

IsRefStep == HookStep /\ ~Dropping /\ ev'.kind \in {"entityref", "charref"}

\* C19, as claimed: in the Normal state an EntityRef or CharRef event has the
\* effect of a Text event that carries the character the reference denotes.
C19_Claimed ==
  [][IsRefStep =>
       \A e \in StepEvents :
         St(out', drop_content_stack') = on_data(out, drop_content_stack, DecodedRef(e))]_vars

\* C19, amended: in the Normal state an EntityRef(name) appends "&name;" and a
\* CharRef(name) appends "&#name;": the reference is written again, not
\* decoded.  The fragment holds no "<", ">" or quote and denotes the same
\* character; for lt it is what a Text event with "<" appends.
C19_RefReemitted ==
  [][IsRefStep =>
       /\ StepEvents # {}
       /\ \A e \in StepEvents :
            LET f == out'[Len(out')] IN
            /\ drop_content_stack' = drop_content_stack
            /\ out' = Append(out, (IF e.kind = "entityref" THEN <<"&">> ELSE <<"&", "#">>)
                                    \o e.data \o <<";">>)
            /\ \A i \in DOMAIN f : f[i] \notin {"<", ">", "\"", "'"}
            /\ Unescape(f) = DecodedRef(e)
            /\ e.data = <<"lt">> => St(out', drop_content_stack') = on_data(out, << >>, <<"<">>)]_vars

C19_Witness ==
  /\ ev.kind = "charref" /\ ~ev.dropping
  /\ out = << <<"&", "#", "x3c", ";">> >>

\* the void elements among the tag names of the model
VoidElements == {"br"}

\* C20, as claimed: in the Normal state EndTag(name) appends the closing tag
\* of name exactly when name is an allowed tag and not a void element, and
\* otherwise appends nothing; EndTag(br) appends nothing.
C20_Claimed ==
  [][(HookStep /\ ~Dropping /\ ev'.kind = "end") =>
       out' = IF Lower(ev'.tag) \in allowed_tags /\ Lower(ev'.tag) \notin VoidElements
              THEN Append(out, <<"<", "/", Lower(ev'.tag), ">">>)
              ELSE out]_vars

\* C21, as claimed: in the Normal state a SelfClosingTag of an allowed tag has
\* the effect of StartTag followed by EndTag of that tag, the opening tag with
\* its validated attributes and then the closing tag; for the void element br
\* it has the effect of StartTag alone, no closing tag being written.
C21_Claimed ==
  [][(HookStep /\ ~Dropping /\ ev'.kind = "startend"
        /\ Lower(ev'.tag) \in allowed_tags) =>
       \A e \in StepEvents :
         St(out', drop_content_stack') =
           IF Lower(e.tag) \in VoidElements
           THEN on_starttag(out, << >>, e.tag, e.attrs)
           ELSE Feed(out, << >>, <<Event("start", e.tag, e.attrs, << >>),
                                   Event("end", e.tag, << >>, << >>)>>)]_vars

\* the events of the crossed script and style example, up to the n-th
CrossedDrop(n) ==
  SubSeq(<<Event("start", "script", << >>, << >>),
           Event("start", "style", << >>, << >>),
           Event("end", "script", << >>, << >>),
           Event("data", "", << >>, <<"x">>),
           Event("end", "style", << >>, << >>)>>, 1, n)

\* C22: in the Dropping state an EndTag removes the top entry of the stack
\* when its name is the top entry and otherwise changes nothing, also when
\* the name is an entry further down; it never writes output.  For
\* StartTag(script), StartTag(style), EndTag(script), Text, EndTag(style) the
\* EndTag(script) is ignored, the text is dropped and the stack is [script]
\* at the end.
C22_PopOnlyOnTopMatch ==
  [][HookStep =>
      /\ (Dropping /\ ev'.kind = "end") =>
           /\ out' = out
           /\ drop_content_stack' =
                IF Lower(ev'.tag) = drop_content_stack[Len(drop_content_stack)]
                THEN SubSeq(drop_content_stack, 1, Len(drop_content_stack) - 1)
                ELSE drop_content_stack
      /\ ~Dropping =>
           /\ Feed(out, << >>, CrossedDrop(2)) = St(out, <<"script", "style">>)
           /\ Feed(out, << >>, CrossedDrop(3)) = St(out, <<"script", "style">>)
           /\ Feed(out, << >>, CrossedDrop(4)) = St(out, <<"script", "style">>)
           /\ Feed(out, << >>, CrossedDrop(5)) = St(out, <<"script">>)]_vars

C22_Witness ==
  /\ ev.kind = "end" /\ ev.tag = "script" /\ ev.dropping
  /\ drop_content_stack = <<"script", "style">>

\* C23: in the Dropping state a StartTag whose name is not a drop-content
\* tag, allowed or not, leaves the drop stack and the output buffer as they
\* are.
C23_DroppingStartIgnored ==
  [][(HookStep /\ Dropping /\ ev'.kind = "start"
        /\ Lower(ev'.tag) \notin DROP_CONTENT_TAGS) =>
       (out' = out /\ drop_content_stack' = drop_content_stack)]_vars

C23_Witness ==
  /\ ev.kind = "start" /\ ev.tag = "DIV" /\ ev.dropping
  /\ Lower(ev.tag) \in allowed_tags
  /\ Len(drop_content_stack) = 1
  /\ out # << >>

\* C24: a SelfClosingTag of a drop-content tag leaves the drop stack as it is
\* and writes nothing, in the Normal and in the Dropping state: it neither
\* opens a drop region nor closes one.
C24_SelfClosedDropTagNoOp ==
  [][(HookStep /\ ev'.kind = "startend"
        /\ Lower(ev'.tag) \in DROP_CONTENT_TAGS) =>
       (out' = out /\ drop_content_stack' = drop_content_stack)]_vars

C24_Witness ==
  /\ ev.kind = "startend" /\ ev.tag = "script" /\ ~ev.dropping
  /\ ~Dropping
  /\ out # << >>

\* e is the EndTag that closes a drop region of depth one with stack s
ClosesRegion(s, e) ==
  Len(s) = 1 /\ e.kind = "end" /\ Lower(e.tag) = s[1]

\* C25: a drop region that is not closed suppresses everything up to the end
\* of the input.  In the Dropping state every event other than the EndTag
\* that closes the region leaves the output as it is and the machine
\* Dropping; no step taken while Dropping writes output; when the call
\* returns with entries left on the stack, they add nothing: the result is
\* the join of the output as it was when the region began.
C25_UnterminatedDropRegion ==
  /\ []((Dropping /\ pc = "feed") =>
           \A e \in Events :
             ~ClosesRegion(drop_content_stack, e) =>
               /\ Handle(out, drop_content_stack, e).out = out
               /\ Handle(out, drop_content_stack, e).stack # << >>)
  /\ [][Dropping =>
         /\ out' = out
         /\ (pc = "feed" /\ pc' = "done") => result' = Concat(out)]_vars

C25_Witness ==
  /\ pc = "done"
  /\ Dropping /\ ev.dropping
  /\ out # << >> /\ result = Concat(out)

IsCloseTag(f) == Len(f) = 4 /\ f[1] = "<" /\ f[2] = "/" /\ f[4] = ">"

\* more opening than closing tags of name n have been written to o
HasOpen(o, n) ==
  Cardinality({i \in DOMAIN o : IsOpenTag(o[i]) /\ o[i][2] = n})
    > Cardinality({i \in DOMAIN o : IsCloseTag(o[i]) /\ o[i][3] = n})

\* C26, as claimed: in the Normal state an EndTag for which no StartTag is
\* open, such as the EndTag of an allowed tag that comes first in the input,
\* and an EndTag of an unknown tag add nothing to the output.
C26_Claimed ==
  [][(HookStep /\ ~Dropping /\ ev'.kind = "end"
        /\ (Lower(ev'.tag) \notin allowed_tags \/ ~HasOpen(out, Lower(ev'.tag)))) =>
       out' = out]_vars

\* the step consumes a StartTag of a drop-content tag
DropStartStep ==
  HookStep /\ ev'.kind = "start" /\ Lower(ev'.tag) \in DROP_CONTENT_TAGS

\* C27, as claimed: the drop stack grows by one entry at a time and only on
\* a StartTag of a drop-content tag, and its depth is capped: at the greatest
\* depth the stack has, the hook itself refuses a further push.  (Stacks
\* deeper than MaxDepth are not explored, so MaxDepth stands for the cap.)
C27_Claimed ==
  [][HookStep =>
      /\ Len(drop_content_stack') <= Len(drop_content_stack) + 1
      /\ Len(drop_content_stack') > Len(drop_content_stack) => DropStartStep
      /\ Len(drop_content_stack) = MaxDepth =>
           \A t \in TagNames :
             Len(on_starttag(out, drop_content_stack, t, << >>).stack) <= MaxDepth]_vars

IsPrefix(xs, ys) == Len(xs) <= Len(ys) /\ SubSeq(ys, 1, Len(xs)) = xs

\* C28: the output buffer is append-only.  Whatever event comes next, the
\* buffer after it is the buffer before it followed by the fragments that
\* this event alone produces; every step leaves the old buffer as a prefix of
\* the new one; the returned string is the join of the fragments in their
\* order in the buffer.
C28_AppendOnly ==
  /\ [](pc = "feed" =>
          \A e \in Events :
            LET st == Handle(out, drop_content_stack, e) IN
            /\ IsPrefix(out, st.out)
            /\ st.out = out \o Handle(<< >>, drop_content_stack, e).out)
  /\ [][/\ IsPrefix(out, out')
         /\ (pc = "feed" /\ pc' = "done") =>
              (out' = out /\ result' = Concat(out))]_vars

C28_Witness ==
  /\ pc = "done"
  /\ ev.kind = "startend"
  /\ Len(out) = 2 /\ IsOpenTag(out[1]) /\ IsCloseTag(out[2])
  /\ result = out[1] \o out[2]

\* the step consumes, in the Dropping state, an EndTag that names the top
TopPopStep ==
  /\ HookStep /\ Dropping /\ ev'.kind = "end"
  /\ Lower(ev'.tag) = drop_content_stack[Len(drop_content_stack)]

\* C29, as claimed: every entry of the drop stack is a drop-content tag and
\* none is an allowed tag; each drop-content StartTag adds one entry, each
\* top-matching EndTag removes one, and no other step changes the depth, so
\* the stack is non-empty exactly when the pushes outnumber the pops.
C29_Claimed ==
  [][/\ \A i \in DOMAIN drop_content_stack' :
          /\ drop_content_stack'[i] \in DROP_CONTENT_TAGS
          /\ drop_content_stack'[i] \notin allowed_tags'
     /\ HookStep =>
          Len(drop_content_stack') =
            Len(drop_content_stack) + (IF DropStartStep THEN 1 ELSE 0)
                                    - (IF TopPopStep THEN 1 ELSE 0)]_vars

\* C30, as claimed: in the second sanitizer every tag written is one of b, i,
\* em, strong, br, span; an opening tag carries no attribute other than class,
\* a class attribute stands on a span tag only, and its value matches the
\* safe-class pattern.
C30_Claimed ==
  /\ TagNamesIn(Concat(sec.out)) \cup TagNamesIn(sec.result)
       \subseteq {"b", "i", "em", "strong", "br", "span"}
  /\ \A i \in DOMAIN sec.out :
       IsOpenTag(sec.out[i]) =>
         /\ WellFormedOpenTag(sec.out[i])
         /\ AttrNames(sec.out[i]) \subseteq {"class"}
         /\ AttrNames(sec.out[i]) # {} => sec.out[i][2] = "span"
         /\ \A j \in DOMAIN ParseAttrs(sec.out[i]) :
              SAFE_CLASS(ParseAttrs(sec.out[i])[j].v)

====
